---------------------------- MODULE Spec2Model ----------------------------
(***************************************************************************)
(* A model of grsync's Task (task.go): Run, the two stream processors,     *)
(* the State/Log snapshots and the line parsing helpers.                   *)
(*                                                                         *)
(* Text is a sequence of one-character strings, so that reading up to a    *)
(* newline, regular-expression matching, splitting and integer parsing are *)
(* computed character by character as the Go code computes them.           *)
(* State.Progress is a float64 in the code; the model keeps the exact      *)
(* rational <<numerator, denominator>> in lowest terms.                    *)
(***************************************************************************)
EXTENDS Integers, Sequences, FiniteSets, TLC

(***************************************************************************)
(* Bounds of the model.                                                    *)
(***************************************************************************)
\* chunks the subprocess writes to stdout in one run (concurrent runs)
MaxOutLines == 1
\* chunks the subprocess writes to stderr in one run
MaxErrLines == 1
\* State()/Log() calls an external caller makes in one run
MaxCalls == 2
\* chunks the subprocess writes to stdout in one run of the parsing runs
MaxParseLines == 2

(***************************************************************************)
(* Constants of task.go.                                                   *)
(***************************************************************************)
maxPercents == 100
minDivider == 1
numbersCount == 2
indexRem == 0
indexTotal == 1
\* the submatch limit passed to ExtractAllStringSubmatch
speedSubmatchCount == 2
\* the delta of wg.Add
wgDelta == 2

(***************************************************************************)
(* Text helpers.                                                           *)
(***************************************************************************)
NL == "\n"

Digits == <<"0", "1", "2", "3", "4", "5", "6", "7", "8", "9">>

IsDigit(c) == \E k \in 1..10 : Digits[k] = c

DigitValue(c) == (CHOOSE k \in 1..10 : Digits[k] = c) - 1

Max(a, b) == IF a >= b THEN a ELSE b

RECURSIVE Gcd(_, _)
Gcd(a, b) == IF b = 0 THEN a ELSE Gcd(b, a % b)

Abs(a) == IF a < 0 THEN 0 - a ELSE a

\* the rational n/d (d > 0) in lowest terms
Ratio(n, d) ==
    LET g == Gcd(Abs(n), d)
    IN  <<n \div g, d \div g>>

\* s[i..] starts with the literal lit
HasAt(s, i, lit) ==
    /\ i >= 1
    /\ i + Len(lit) - 1 <= Len(s)
    /\ \A k \in 1..Len(lit) : s[i + k - 1] = lit[k]

\* the last index of the run of digits of s that starts at i (i - 1: no digit at i)
RECURSIVE DigitRunEnd(_, _)
DigitRunEnd(s, i) ==
    IF i <= Len(s) /\ IsDigit(s[i]) THEN DigitRunEnd(s, i + 1) ELSE i - 1

\* the regular expression's '.': any character but a newline
Dot(s, i) == i >= 1 /\ i <= Len(s) /\ s[i] # NL

\* the largest and the smallest element of a non-empty set of numbers (bound
\* as T, the set is computed once)
SetMax(S) == CHOOSE x \in UNION {{m \in T : \A y \in T : y <= m} : T \in {S}} : TRUE

SetMin(S) == CHOOSE x \in UNION {{m \in T : \A y \in T : m <= y} : T \in {S}} : TRUE

RECURSIVE Flatten(_)
Flatten(ss) == IF ss = <<>> THEN <<>> ELSE Head(ss) \o Flatten(Tail(ss))

(***************************************************************************)
(* strconv.Atoi with the error dropped: the value of a non-empty string of *)
(* digits that fits an int, 0 for a string that is no number (ErrSyntax),  *)
(* and the largest int for a number out of range (ErrRange).  An int has   *)
(* 64 bits: every numeral of more than 19 digits is out of range.  The     *)
(* integers of the model checker end at 2^31 - 1, so the lines of the      *)
(* model carry numerals of fewer than 8 or of more than 19 digits only,    *)
(* and a smaller number, larger than any of the former, stands for         *)
(* math.MaxInt64.                                                          *)
(***************************************************************************)
MaxInt64Digits == 19

MaxInt64StandIn == 9999999

RECURSIVE DigitsValue(_, _)
DigitsValue(s, acc) ==
    IF s = <<>> THEN acc
    ELSE DigitsValue(Tail(s), acc * 10 + DigitValue(Head(s)))

Atoi(s) ==
    IF s # <<>> /\ \A k \in 1..Len(s) : IsDigit(s[k])
    THEN IF Len(s) > MaxInt64Digits THEN MaxInt64StandIn ELSE DigitsValue(s, 0)
    ELSE 0

(***************************************************************************)
(* strings.Split(s, sep) for a one-character separator.                    *)
(***************************************************************************)
RECURSIVE Split(_, _)
Split(s, sep) ==
    IF \E k \in 1..Len(s) : s[k] = sep
    THEN LET k == SetMin({j \in 1..Len(s) : s[j] = sep})
         IN  <<SubSeq(s, 1, k - 1)>> \o Split(SubSeq(s, k + 1, Len(s)), sep)
    ELSE <<s>>

(***************************************************************************)
(* progressMatcher: \(.+-chk=(\d+.\d+)                                     *)
(* Leftmost match; '.+' and '\d+' are greedy and backtrack.                *)
(***************************************************************************)
ChkLiteral == <<"-", "c", "h", "k", "=">>

\* ends a of the first \d+ of a capture starting at c for which '.\d+' follows
ProgressCaptureSplits(s, c) ==
    {a \in c..DigitRunEnd(s, c) : Dot(s, a + 1) /\ a + 2 <= Len(s) /\ IsDigit(s[a + 2])}

\* the end of the capture (\d+.\d+) starting at c; 0 when it does not match there
ProgressCaptureEnd(s, c) ==
    IF ProgressCaptureSplits(s, c) = {} THEN 0
    ELSE DigitRunEnd(s, SetMax(ProgressCaptureSplits(s, c)) + 2)

\* starts j of "-chk=" that complete a match beginning with '(' at i
ProgressChkStarts(s, i) ==
    {j \in (i + 2)..Len(s) :
        /\ \A k \in (i + 1)..(j - 1) : Dot(s, k)
        /\ HasAt(s, j, ChkLiteral)
        /\ ProgressCaptureEnd(s, j + Len(ChkLiteral)) # 0}

ProgressMatchStarts(s) ==
    {i \in 1..Len(s) : s[i] = "(" /\ ProgressChkStarts(s, i) # {}}

\* progressMatcher.Match
ProgressMatch(s) == ProgressMatchStarts(s) # {}

\* progressMatcher.Extract: capture 1 of the first match, "" without a match
ProgressExtract(s) ==
    CHOOSE capture \in
        {IF starts = {} THEN <<>>
         ELSE CHOOSE text \in
                 {SubSeq(s, c, ProgressCaptureEnd(s, c)) :
                     c \in {SetMax(ProgressChkStarts(s, SetMin(starts)))
                               + Len(ChkLiteral)}} : TRUE :
            starts \in {ProgressMatchStarts(s)}} : TRUE

(***************************************************************************)
(* speedMatcher: (\d+\.\d+.{2}\/s)                                         *)
(***************************************************************************)
PerSecond == <<"/", "s">>

\* ends q of the second \d+ of a match starting at i, whose '.' is at p + 1
SpeedFractionEnds(s, p) ==
    {q \in (p + 2)..DigitRunEnd(s, p + 2) :
        Dot(s, q + 1) /\ Dot(s, q + 2) /\ HasAt(s, q + 3, PerSecond)}

\* the end of the match starting at i; 0 when there is none
SpeedMatchEnd(s, i) ==
    LET p == DigitRunEnd(s, i)
    IN  IF p >= i /\ p + 1 <= Len(s) /\ s[p + 1] = "." /\ SpeedFractionEnds(s, p) # {}
        THEN SetMax(SpeedFractionEnds(s, p)) + 2 + Len(PerSecond)
        ELSE 0

SpeedMatchStarts(s, from) == {i \in from..Len(s) : SpeedMatchEnd(s, i) # 0}

\* speedMatcher.Match
SpeedMatch(s) == SpeedMatchStarts(s, 1) # {}

\* speedMatcher.ExtractAllStringSubmatch(s, n): the first n non-overlapping
\* matches from position from on, each as <<whole match, capture 1>>
RECURSIVE SpeedSubmatchesFrom(_, _, _)
SpeedSubmatchesFrom(s, from, n) ==
    IF n = 0 \/ SpeedMatchStarts(s, from) = {} THEN <<>>
    ELSE LET i == SetMin(SpeedMatchStarts(s, from))
             e == SpeedMatchEnd(s, i)
             m == SubSeq(s, i, e)
         IN  <<(<<m, m>>)>> \o SpeedSubmatchesFrom(s, e + 1, n - 1)

SpeedExtractAllStringSubmatch(s, n) == SpeedSubmatchesFrom(s, 1, n)

(***************************************************************************)
(* getTaskProgress and getTaskSpeed.                                       *)
(***************************************************************************)
\* getTaskProgress with the two indexes exchanged
getTaskProgressSwapped(remTotalString) ==
    CHOOSE result \in
        {IF Len(info) < numbersCount THEN <<0, 0>>
         ELSE <<Atoi(info[indexTotal + 1]), Atoi(info[indexRem + 1])>> :
            info \in {Split(remTotalString, "/")}} : TRUE

\* info := strings.Split(remTotalString, remTotalSeparator), and what is
\* returned for that info
getTaskProgress(remTotalString) ==
    CHOOSE result \in
        {IF Len(info) < numbersCount THEN <<0, 0>>
         ELSE <<Atoi(info[indexRem + 1]), Atoi(info[indexTotal + 1])>> :
            info \in {Split(remTotalString, "/")}} : TRUE

\* getTaskSpeed returning the first occurrence
getTaskSpeedFirst(data) ==
    IF Len(data) < 1 \/ Len(data[1]) < 2 THEN <<>>
    ELSE data[1][2]

getTaskSpeed(data) ==
    IF Len(data) < 2 \/ Len(data[2]) < 2 THEN <<>>
    ELSE data[2][2]

\* the percentage of what remains instead of what was copied
PercentOfRemain(remain, total) ==
    Ratio(remain * maxPercents, Max(total, minDivider))

\* copiedCount / math.Max(Total, minDivider) * maxPercents
Percent(remain, total) ==
    Ratio((total - remain) * maxPercents, Max(total, minDivider))

(***************************************************************************)
(* The text the subprocess may write.  A chunk is one write: a line with   *)
(* its newline, or text without one.                                       *)
(***************************************************************************)
\* "  1,234  50%  120.00kB/s  0:00:10 (xfr#1, to-chk=50/100)\n"
LineScenarioA ==
    << " ", " ", "1", ",", "2", "3", "4", " ", " ", "5", "0", "%", " ", " ", "1", "2", "0",
       ".", "0", "0", "k", "B", "/", "s", " ", " ", "0", ":", "0", "0", ":", "1", "0", " ",
       "(", "x", "f", "r", "#", "1", ",", " ", "t", "o", "-", "c", "h", "k", "=", "5", "0",
       "/", "1", "0", "0", ")", "\n" >>

\* "0.00kB/s 9.99MB/s (xfr#9, to-chk=9/12)\n"
LineTwoSpeeds ==
    << "0", ".", "0", "0", "k", "B", "/", "s", " ", "9", ".", "9", "9", "M", "B", "/", "s",
       " ", "(", "x", "f", "r", "#", "9", ",", " ", "t", "o", "-", "c", "h", "k", "=", "9",
       "/", "1", "2", ")", "\n" >>

\* "(x-chk=123)\n": the capture (\d+.\d+) without a '/'
LineNoSlash ==
    << "(", "x", "-", "c", "h", "k", "=", "1", "2", "3", ")", "\n" >>

\* "(x-chk=99999999999999999999/4)\n": a REMAIN of 20 digits
LineOverflow ==
    << "(", "x", "-", "c", "h", "k", "=", "9", "9", "9", "9", "9", "9", "9", "9", "9", "9",
       "9", "9", "9", "9", "9", "9", "9", "9", "9", "9", "/", "4", ")", "\n" >>

\* "(a-chk=2/8) (b-chk=1/8)\n"
LineTwoFragments ==
    << "(", "a", "-", "c", "h", "k", "=", "2", "/", "8", ")", " ", "(", "b", "-", "c", "h",
       "k", "=", "1", "/", "8", ")", "\n" >>

\* "1.5kB/s\n"
LineSpeedOnce ==
    << "1", ".", "5", "k", "B", "/", "s", "\n" >>

\* "1.5kB/s 2.25MB/s\n"
LineSpeedTwice ==
    << "1", ".", "5", "k", "B", "/", "s", " ", "2", ".", "2", "5", "M", "B", "/", "s", "\n" >>

\* "0.5kB/s 1.234/s\n": the second match needs '\d+' to give back two digits
LineSpeedBacktrack ==
    << "0", ".", "5", "k", "B", "/", "s", " ", "1", ".", "2", "3", "4", "/", "s", "\n" >>

\* "rsync: junk\n"
LineJunk ==
    << "r", "s", "y", "n", "c", ":", " ", "j", "u", "n", "k", "\n" >>

\* "err\n"
LineErr ==
    << "e", "r", "r", "\n" >>

\* "(x-chk=2/4)": a progress fragment that no newline ends
FragmentProgress ==
    << "(", "x", "-", "c", "h", "k", "=", "2", "/", "4", ")" >>

\* strconv.Itoa for n >= 0
RECURSIVE Itoa(_)
Itoa(n) == IF n < 10 THEN <<Digits[n + 1]>> ELSE Itoa(n \div 10) \o <<Digits[(n % 10) + 1]>>

\* "(xfr#1, to-chk=<r>/<t>)\n": a line of the progress grammar
ProgressLine(r, t) ==
    << "(", "x", "f", "r", "#", "1", ",", " ", "t", "o", "-", "c", "h", "k", "=" >>
        \o Itoa(r) \o <<"/">> \o Itoa(t) \o << ")", "\n" >>

\* REMAIN and TOTAL of the progress lines of the model
Counts == {0, 1, 4, 12}

(***************************************************************************)
(* The state of one Task and of its collaborators.                         *)
(***************************************************************************)
VARIABLES
    runPc,       \* where Run is
    runErr,      \* what Run returned ("none" until it returns)
    startCalls,  \* calls of t.rsync.Start so far
    waitCalls,   \* calls of t.rsync.Wait so far
    wg,          \* the counter of the sync.WaitGroup
    panicked,    \* the program died of a panic
    outStream,   \* the stdout pipe: [status, buf]
    errStream,   \* the stderr pipe: [status, buf]
    outPc,       \* where the processStdout goroutine is
    outLine,     \* its logStr
    outRead,     \* the lines its ReadString has returned, in order
    errPc,       \* where the processStderr goroutine is
    errLine,     \* its logStr
    errRead,     \* the lines its ReadString has returned, in order
    mutex,       \* the holder of task.mutex, or "free"
    state,       \* *task.state
    log,         \* *task.log
    logHist,     \* every value *task.log has had
    stateHist,   \* every value *task.state has had outside the locked section
    proc,        \* the subprocess: "notStarted", "running", "exited"
    exitOk,      \* the subprocess exited with status 0
    outLeft,     \* chunks the subprocess may still write to stdout
    errLeft,     \* chunks the subprocess may still write to stderr
    callPc,      \* where the external caller of State()/Log() is
    callC,       \* the local c of State(), which it returns
    callL,       \* the local l of Log(), which it returns
    retLog,      \* <<the value the last Log() returned>>, <<>> before any
    calls        \* State()/Log() calls made so far

runVars == <<runPc, runErr, startCalls, waitCalls>>
wgVars == <<wg, panicked>>
streamVars == <<outStream, errStream>>
outVars == <<outPc, outLine, outRead>>
errVars == <<errPc, errLine, errRead>>
taskVars == <<mutex, state, log, logHist, stateHist>>
procVars == <<proc, exitOk, outLeft, errLeft>>
callVars == <<callPc, callC, callL, retLog, calls>>

vars == <<runVars, wgVars, streamVars, outVars, errVars, taskVars, procVars, callVars>>

\* &State{}
ZeroState == [Remain |-> 0, Total |-> 0, Speed |-> <<>>, Progress |-> <<0, 1>>]

\* &Log{}
ZeroLog == [Stderr |-> <<>>, Stdout |-> <<>>]

\* a pipe nobody has asked for yet
NoStream == [status |-> "none", buf |-> <<>>]

\* NewTask: the state after construction, with outN and errN chunks to come
InitWith(outN, errN) ==
    /\ runPc = "stderrPipe"
    /\ runErr = "none"
    /\ startCalls = 0
    /\ waitCalls = 0
    /\ wg = 0
    /\ panicked = FALSE
    /\ outStream = NoStream
    /\ errStream = NoStream
    /\ outPc = "idle"
    /\ outLine = <<>>
    /\ outRead = <<>>
    /\ errPc = "idle"
    /\ errLine = <<>>
    /\ errRead = <<>>
    /\ mutex = "free"
    /\ state = ZeroState
    /\ log = ZeroLog
    /\ logHist = {ZeroLog}
    /\ stateHist = {ZeroState}
    /\ proc = "notStarted"
    /\ exitOk = FALSE
    /\ outLeft = outN
    /\ errLeft = errN
    /\ callPc = "idle"
    /\ callC = ZeroState
    /\ callL = ZeroLog
    /\ retLog = <<>>
    /\ calls = 0

Init == InitWith(MaxOutLines, MaxErrLines)

(***************************************************************************)
(* Task.Run.                                                               *)
(***************************************************************************)
\* stream.Close()
Closed(stream) == [stream EXCEPT !.status = "closed"]

\* stderr, err := t.rsync.StderrPipe(), err == nil
RunStderrPipeOk ==
    /\ ~panicked
    /\ runPc = "stderrPipe"
    /\ errStream' = [status |-> "open", buf |-> <<>>]
    /\ runPc' = "stdoutPipe"
    /\ UNCHANGED <<runErr, startCalls, waitCalls, wgVars, outStream, outVars, errVars,
                   taskVars, procVars, callVars>>

\* stderr, err := t.rsync.StderrPipe(), err != nil: return err
RunStderrPipeFail ==
    /\ ~panicked
    /\ runPc = "stderrPipe"
    /\ runPc' = "returned"
    /\ runErr' = "errStderrPipe"
    /\ UNCHANGED <<startCalls, waitCalls, wgVars, streamVars, outVars, errVars,
                   taskVars, procVars, callVars>>

\* stdout, err := t.rsync.StdoutPipe(), err == nil
RunStdoutPipeOk ==
    /\ ~panicked
    /\ runPc = "stdoutPipe"
    /\ outStream' = [status |-> "open", buf |-> <<>>]
    /\ runPc' = "goStdout"
    /\ UNCHANGED <<runErr, startCalls, waitCalls, wgVars, errStream, outVars, errVars,
                   taskVars, procVars, callVars>>

\* stdout, err := t.rsync.StdoutPipe(), err != nil
RunStdoutPipeFail ==
    /\ ~panicked
    /\ runPc = "stdoutPipe"
    /\ runPc' = "acqClose"
    /\ UNCHANGED <<runErr, startCalls, waitCalls, wgVars, streamVars, outVars, errVars,
                   taskVars, procVars, callVars>>

\* the stdout acquisition failure path without its stderr.Close()
RunAcqReturnUnclosed ==
    /\ ~panicked
    /\ runPc = "acqClose"
    /\ runPc' = "returned"
    /\ runErr' = "errStdoutPipe"
    /\ UNCHANGED <<startCalls, waitCalls, wgVars, streamVars, outVars, errVars,
                   taskVars, procVars, callVars>>

\* stderr.Close(); return err
RunAcqClose ==
    /\ ~panicked
    /\ runPc = "acqClose"
    /\ errStream' = Closed(errStream)
    /\ runPc' = "returned"
    /\ runErr' = "errStdoutPipe"
    /\ UNCHANGED <<startCalls, waitCalls, wgVars, outStream, outVars, errVars,
                   taskVars, procVars, callVars>>

\* go processStdout(&wg, t, stdout)
RunGoStdout ==
    /\ ~panicked
    /\ runPc = "goStdout"
    /\ outPc' = "read"
    /\ runPc' = "goStderr"
    /\ UNCHANGED <<runErr, startCalls, waitCalls, wgVars, streamVars, outLine, outRead,
                   errVars, taskVars, procVars, callVars>>

\* go processStderr(&wg, t, stderr)
RunGoStderr ==
    /\ ~panicked
    /\ runPc = "goStderr"
    /\ errPc' = "read"
    /\ runPc' = "wgAdd"
    /\ UNCHANGED <<runErr, startCalls, waitCalls, wgVars, streamVars, outVars, errLine,
                   errRead, taskVars, procVars, callVars>>

\* wg.Add(2)
RunWgAdd ==
    /\ ~panicked
    /\ runPc = "wgAdd"
    /\ wg' = wg + wgDelta
    /\ runPc' = "start"
    /\ UNCHANGED <<runErr, startCalls, waitCalls, panicked, streamVars, outVars, errVars,
                   taskVars, procVars, callVars>>

\* err = t.rsync.Start(), err == nil: the subprocess runs
RunStartOk ==
    /\ ~panicked
    /\ runPc = "start"
    /\ startCalls' = startCalls + 1
    /\ proc' = "running"
    /\ runPc' = "wgWait"
    /\ UNCHANGED <<runErr, waitCalls, wgVars, streamVars, outVars, errVars, taskVars,
                   exitOk, outLeft, errLeft, callVars>>

\* err = t.rsync.Start(), err != nil
RunStartFail ==
    /\ ~panicked
    /\ runPc = "start"
    /\ startCalls' = startCalls + 1
    /\ runPc' = "closeStdout"
    /\ UNCHANGED <<runErr, waitCalls, wgVars, streamVars, outVars, errVars, taskVars,
                   procVars, callVars>>

\* stdout.Close()
RunCloseStdout ==
    /\ ~panicked
    /\ runPc = "closeStdout"
    /\ outStream' = Closed(outStream)
    /\ runPc' = "closeStderr"
    /\ UNCHANGED <<runErr, startCalls, waitCalls, wgVars, errStream, outVars, errVars,
                   taskVars, procVars, callVars>>

\* stderr.Close()
RunCloseStderr ==
    /\ ~panicked
    /\ runPc = "closeStderr"
    /\ errStream' = Closed(errStream)
    /\ runPc' = "wgWaitFail"
    /\ UNCHANGED <<runErr, startCalls, waitCalls, wgVars, outStream, outVars, errVars,
                   taskVars, procVars, callVars>>

\* a barrier that one Done opens
WgWaitReturnsEarly == wg <= 1

\* wg.Wait() returns: the counter is zero
WgWaitReturns == wg = 0

\* the Start failure path without its wg.Wait()
RunReturnStartErrUnjoined ==
    /\ ~panicked
    /\ runPc = "wgWaitFail"
    /\ runPc' = "returned"
    /\ runErr' = "errStart"
    /\ UNCHANGED <<startCalls, waitCalls, wgVars, streamVars, outVars, errVars, taskVars,
                   procVars, callVars>>

\* wg.Wait(); return err   (after Start failed)
RunWgWaitFail ==
    /\ ~panicked
    /\ runPc = "wgWaitFail"
    /\ WgWaitReturns
    /\ runPc' = "returned"
    /\ runErr' = "errStart"
    /\ UNCHANGED <<startCalls, waitCalls, wgVars, streamVars, outVars, errVars, taskVars,
                   procVars, callVars>>

\* wg.Wait()   (after Start succeeded)
RunWgWait ==
    /\ ~panicked
    /\ runPc = "wgWait"
    /\ WgWaitReturns
    /\ runPc' = "wait"
    /\ UNCHANGED <<runErr, startCalls, waitCalls, wgVars, streamVars, outVars, errVars,
                   taskVars, procVars, callVars>>

\* t.rsync.Wait() is called
RunWaitCall ==
    /\ ~panicked
    /\ runPc = "wait"
    /\ waitCalls' = waitCalls + 1
    /\ runPc' = "waiting"
    /\ UNCHANGED <<runErr, startCalls, wgVars, streamVars, outVars, errVars, taskVars,
                   procVars, callVars>>

\* the result of Wait dropped
WaitResultDropped == "nil"

\* what t.rsync.Wait() returns once the subprocess has exited
WaitResult == IF exitOk THEN "nil" ELSE "errExit"

\* return t.rsync.Wait()
RunWaitReturn ==
    /\ ~panicked
    /\ runPc = "waiting"
    /\ proc = "exited"
    /\ runPc' = "returned"
    /\ runErr' = WaitResult
    /\ UNCHANGED <<startCalls, waitCalls, wgVars, streamVars, outVars, errVars, taskVars,
                   procVars, callVars>>

(***************************************************************************)
(* The mutex, the WaitGroup and bufio.Reader.ReadString.                   *)
(***************************************************************************)
\* a lock that excludes nobody
MutexLockNoWait(who) == mutex' = who

\* task.mutex.Lock() by who: waits until the mutex is free
MutexLock(who) == mutex = "free" /\ mutex' = who

\* task.mutex.Unlock()
MutexUnlock == mutex' = "free"

\* wg.Done(): a counter below zero panics, and the panic ends the program
WgDone ==
    /\ wg' = wg - 1
    /\ panicked' = (wg - 1 < 0)

HasLine(buf) == \E k \in 1..Len(buf) : buf[k] = NL

\* the text up to and including the first newline
FirstLine(buf) == SubSeq(buf, 1, SetMin({k \in 1..Len(buf) : buf[k] = NL}))

AfterFirstLine(buf) == SubSeq(buf, Len(FirstLine(buf)) + 1, Len(buf))

\* a read that fails at end-of-stream only
ReadFailsAtEofOnly(stream) == stream.status = "eof" /\ ~HasLine(stream.buf)

\* ReadString('\n') returns an error: the stream ended with no newline left to
\* deliver, or its reads fail (an I/O error, a closed pipe)
ReadFails(stream) ==
    \/ stream.status \in {"err", "closed"}
    \/ stream.status = "eof" /\ ~HasLine(stream.buf)

(***************************************************************************)
(* processStdout.                                                          *)
(***************************************************************************)
\* the assignment of Remain and Total that also resets Speed
SetRemainTotalResetSpeed(st, logStr) ==
    CHOOSE result \in
        {[st EXCEPT !.Remain = rt[1], !.Total = rt[2], !.Speed = <<>>] :
            rt \in {getTaskProgress(capture) :
                capture \in {ProgressExtract(logStr)}}} : TRUE

\* task.state.Remain, task.state.Total = getTaskProgress(progressMatcher.Extract(logStr))
\* (the capture and the pair are bound, so that each is computed once)
SetRemainTotal(st, logStr) ==
    CHOOSE result \in
        {[st EXCEPT !.Remain = rt[1], !.Total = rt[2]] :
            rt \in {getTaskProgress(capture) :
                capture \in {ProgressExtract(logStr)}}} : TRUE

\* task.state.Progress = copiedCount / math.Max(Total, minDivider) * maxPercents
SetProgress(st) == [st EXCEPT !.Progress = Percent(st.Remain, st.Total)]

\* the speed stored only when one was found
SetSpeedIfFound(st, logStr) ==
    LET sp == getTaskSpeed(SpeedExtractAllStringSubmatch(logStr, speedSubmatchCount))
    IN  IF sp = <<>> THEN st ELSE [st EXCEPT !.Speed = sp]

\* the speed stored only for a line that is not a progress line
SetSpeedUnlessProgress(st, logStr) ==
    IF ProgressMatch(logStr) THEN st
    ELSE [st EXCEPT !.Speed =
            getTaskSpeed(SpeedExtractAllStringSubmatch(logStr, speedSubmatchCount))]

\* task.state.Speed = getTaskSpeed(speedMatcher.ExtractAllStringSubmatch(logStr, 2))
SetSpeed(st, logStr) ==
    [st EXCEPT !.Speed =
        getTaskSpeed(SpeedExtractAllStringSubmatch(logStr, speedSubmatchCount))]

\* the append to Stdout that starts Stderr afresh
AppendStdoutResetStderr(lg, logStr) ==
    [lg EXCEPT !.Stdout = lg.Stdout \o logStr \o <<NL>>, !.Stderr = <<>>]

\* task.log.Stdout += logStr + "\n"
AppendStdout(lg, logStr) == [lg EXCEPT !.Stdout = lg.Stdout \o logStr \o <<NL>>]

\* logStr, err := reader.ReadString('\n'), err == nil
OutReadLine ==
    /\ ~panicked
    /\ outPc = "read"
    /\ HasLine(outStream.buf)
    /\ outLine' = FirstLine(outStream.buf)
    /\ outRead' = Append(outRead, FirstLine(outStream.buf))
    /\ outStream' = [outStream EXCEPT !.buf = AfterFirstLine(outStream.buf)]
    /\ outPc' = "lock"
    /\ UNCHANGED <<runVars, wgVars, errStream, errVars, taskVars, procVars, callVars>>

\* a failed read whose data is processed like a line
OutReadFailDataProcessed ==
    /\ ~panicked
    /\ outPc = "read"
    /\ ReadFails(outStream)
    /\ outLine' = outStream.buf
    /\ outStream' = [outStream EXCEPT !.buf = <<>>]
    /\ outPc' = IF outStream.buf # <<>> THEN "lock" ELSE "deferDone"
    /\ UNCHANGED <<runVars, wgVars, errStream, outRead, errVars, taskVars, procVars,
                   callVars>>

\* logStr, err := reader.ReadString('\n'), err != nil: break;
\* logStr is the data read before the error
OutReadFail ==
    /\ ~panicked
    /\ outPc = "read"
    /\ ReadFails(outStream)
    /\ outLine' = outStream.buf
    /\ outStream' = [outStream EXCEPT !.buf = <<>>]
    /\ outPc' = "deferDone"
    /\ UNCHANGED <<runVars, wgVars, errStream, outRead, errVars, taskVars, procVars,
                   callVars>>

\* task.mutex.Lock()
OutLock ==
    /\ ~panicked
    /\ outPc = "lock"
    /\ MutexLock("stdout")
    /\ outPc' = "progress"
    /\ UNCHANGED <<runVars, wgVars, streamVars, outLine, outRead, errVars, state, log,
                   logHist, stateHist, procVars, callVars>>

\* if progressMatcher.Match(logStr) { Remain, Total = ... }
OutProgress ==
    /\ ~panicked
    /\ outPc = "progress"
    /\ IF ProgressMatch(outLine)
       THEN outPc' = "percent" /\ state' = SetRemainTotal(state, outLine)
       ELSE outPc' = "speed" /\ state' = state
    /\ UNCHANGED <<runVars, wgVars, streamVars, outLine, outRead, errVars, mutex, log,
                   logHist, stateHist, procVars, callVars>>

\* copiedCount := ...; task.state.Progress = ...
OutPercent ==
    /\ ~panicked
    /\ outPc = "percent"
    /\ state' = SetProgress(state)
    /\ outPc' = "speed"
    /\ UNCHANGED <<runVars, wgVars, streamVars, outLine, outRead, errVars, mutex, log,
                   logHist, stateHist, procVars, callVars>>

\* if speedMatcher.Match(logStr) { Speed = ... }
OutSpeed ==
    /\ ~panicked
    /\ outPc = "speed"
    /\ outPc' = "append"
    /\ state' = IF SpeedMatch(outLine) THEN SetSpeed(state, outLine) ELSE state
    /\ UNCHANGED <<runVars, wgVars, streamVars, outLine, outRead, errVars, mutex, log,
                   logHist, stateHist, procVars, callVars>>

\* task.log.Stdout += logStr + "\n"
OutAppend ==
    /\ ~panicked
    /\ outPc = "append"
    /\ log' = AppendStdout(log, outLine)
    /\ logHist' = logHist \cup {log'}
    /\ outPc' = "unlock"
    /\ UNCHANGED <<runVars, wgVars, streamVars, outLine, outRead, errVars, mutex, state,
                   stateHist, procVars, callVars>>

\* task.mutex.Unlock(), and back to the read
OutUnlock ==
    /\ ~panicked
    /\ outPc = "unlock"
    /\ MutexUnlock
    /\ stateHist' = stateHist \cup {state}
    /\ outLine' = <<>>
    /\ outPc' = "read"
    /\ UNCHANGED <<runVars, wgVars, streamVars, outRead, errVars, state, log, logHist,
                   procVars, callVars>>

\* the deferred wg.Done()
OutDone ==
    /\ ~panicked
    /\ outPc = "deferDone"
    /\ WgDone
    /\ outPc' = "done"
    /\ UNCHANGED <<runVars, streamVars, outLine, outRead, errVars, taskVars, procVars,
                   callVars>>

(***************************************************************************)
(* processStderr.                                                          *)
(***************************************************************************)
\* the stderr line appended to the stdout field
AppendStderrToStdout(lg, logStr) == [lg EXCEPT !.Stdout = lg.Stdout \o logStr \o <<NL>>]

\* task.log.Stderr += logStr + "\n"
AppendStderr(lg, logStr) == [lg EXCEPT !.Stderr = lg.Stderr \o logStr \o <<NL>>]

\* logStr, err := reader.ReadString('\n'), err == nil
ErrReadLine ==
    /\ ~panicked
    /\ errPc = "read"
    /\ HasLine(errStream.buf)
    /\ errLine' = FirstLine(errStream.buf)
    /\ errRead' = Append(errRead, FirstLine(errStream.buf))
    /\ errStream' = [errStream EXCEPT !.buf = AfterFirstLine(errStream.buf)]
    /\ errPc' = "lock"
    /\ UNCHANGED <<runVars, wgVars, outStream, outVars, taskVars, procVars, callVars>>

\* logStr, err := reader.ReadString('\n'), err != nil: break;
\* logStr is the data read before the error
ErrReadFail ==
    /\ ~panicked
    /\ errPc = "read"
    /\ ReadFails(errStream)
    /\ errLine' = errStream.buf
    /\ errStream' = [errStream EXCEPT !.buf = <<>>]
    /\ errPc' = "deferDone"
    /\ UNCHANGED <<runVars, wgVars, outStream, outVars, errRead, taskVars, procVars,
                   callVars>>

\* task.mutex.Lock()
ErrLock ==
    /\ ~panicked
    /\ errPc = "lock"
    /\ MutexLock("stderr")
    /\ errPc' = "append"
    /\ UNCHANGED <<runVars, wgVars, streamVars, outVars, errLine, errRead, state, log,
                   logHist, stateHist, procVars, callVars>>

\* task.log.Stderr += logStr + "\n"
ErrAppend ==
    /\ ~panicked
    /\ errPc = "append"
    /\ log' = AppendStderr(log, errLine)
    /\ logHist' = logHist \cup {log'}
    /\ errPc' = "unlock"
    /\ UNCHANGED <<runVars, wgVars, streamVars, outVars, errLine, errRead, mutex, state,
                   stateHist, procVars, callVars>>

\* task.mutex.Unlock(), and back to the read
ErrUnlock ==
    /\ ~panicked
    /\ errPc = "unlock"
    /\ MutexUnlock
    /\ errLine' = <<>>
    /\ errPc' = "read"
    /\ UNCHANGED <<runVars, wgVars, streamVars, outVars, errRead, state, log, logHist,
                   stateHist, procVars, callVars>>

\* the deferred wg.Done()
ErrDone ==
    /\ ~panicked
    /\ errPc = "deferDone"
    /\ WgDone
    /\ errPc' = "done"
    /\ UNCHANGED <<runVars, streamVars, outVars, errLine, errRead, taskVars, procVars,
                   callVars>>

(***************************************************************************)
(* Task.State and Task.Log, called by an external caller at any time.      *)
(***************************************************************************)
\* a caller enters State()
CallState ==
    /\ ~panicked
    /\ callPc = "idle"
    /\ calls < MaxCalls
    /\ calls' = calls + 1
    /\ callPc' = "stateLock"
    /\ UNCHANGED <<runVars, wgVars, streamVars, outVars, errVars, taskVars, procVars,
                   callC, callL, retLog>>

\* t.mutex.Lock() of State()
CallStateLock ==
    /\ ~panicked
    /\ callPc = "stateLock"
    /\ MutexLock("caller")
    /\ callPc' = "stateCopy"
    /\ UNCHANGED <<runVars, wgVars, streamVars, outVars, errVars, state, log, logHist,
                   stateHist, procVars, callC, callL, retLog, calls>>

\* c := *t.state
CallStateCopy ==
    /\ ~panicked
    /\ callPc = "stateCopy"
    /\ callC' = state
    /\ callPc' = "stateUnlock"
    /\ UNCHANGED <<runVars, wgVars, streamVars, outVars, errVars, taskVars, procVars,
                   callL, retLog, calls>>

\* t.mutex.Unlock(); return c
CallStateReturn ==
    /\ ~panicked
    /\ callPc = "stateUnlock"
    /\ MutexUnlock
    /\ callC' = ZeroState
    /\ callPc' = "idle"
    /\ UNCHANGED <<runVars, wgVars, streamVars, outVars, errVars, state, log, logHist,
                   stateHist, procVars, callL, retLog, calls>>

\* a caller enters Log()
CallLog ==
    /\ ~panicked
    /\ callPc = "idle"
    /\ calls < MaxCalls
    /\ calls' = calls + 1
    /\ callPc' = "logLock"
    /\ UNCHANGED <<runVars, wgVars, streamVars, outVars, errVars, taskVars, procVars,
                   callC, callL, retLog>>

\* t.mutex.Lock() of Log()
CallLogLock ==
    /\ ~panicked
    /\ callPc = "logLock"
    /\ MutexLock("caller")
    /\ callPc' = "logStderr"
    /\ UNCHANGED <<runVars, wgVars, streamVars, outVars, errVars, state, log, logHist,
                   stateHist, procVars, callC, callL, retLog, calls>>

\* l := Log{Stderr: t.log.Stderr,
CallLogStderr ==
    /\ ~panicked
    /\ callPc = "logStderr"
    /\ callL' = [callL EXCEPT !.Stderr = log.Stderr]
    /\ callPc' = "logStdout"
    /\ UNCHANGED <<runVars, wgVars, streamVars, outVars, errVars, taskVars, procVars,
                   callC, retLog, calls>>

\*          Stdout: t.log.Stdout}
CallLogStdout ==
    /\ ~panicked
    /\ callPc = "logStdout"
    /\ callL' = [callL EXCEPT !.Stdout = log.Stdout]
    /\ callPc' = "logUnlock"
    /\ UNCHANGED <<runVars, wgVars, streamVars, outVars, errVars, taskVars, procVars,
                   callC, retLog, calls>>

\* t.mutex.Unlock(); return l
CallLogReturn ==
    /\ ~panicked
    /\ callPc = "logUnlock"
    /\ MutexUnlock
    /\ retLog' = <<callL>>
    /\ callL' = ZeroLog
    /\ callPc' = "idle"
    /\ UNCHANGED <<runVars, wgVars, streamVars, outVars, errVars, state, log, logHist,
                   stateHist, procVars, callC, calls>>

(***************************************************************************)
(* The collaborators: the subprocess and its two pipes.                    *)
(***************************************************************************)
\* the subprocess writes chunk c to its stdout
EmitStdout(c) ==
    /\ ~panicked
    /\ proc = "running"
    /\ outLeft > 0
    /\ outStream.status = "open"
    /\ outStream' = [outStream EXCEPT !.buf = outStream.buf \o c]
    /\ outLeft' = outLeft - 1
    /\ UNCHANGED <<runVars, wgVars, errStream, outVars, errVars, taskVars, proc, exitOk,
                   errLeft, callVars>>

\* the subprocess writes chunk c to its stderr
EmitStderr(c) ==
    /\ ~panicked
    /\ proc = "running"
    /\ errLeft > 0
    /\ errStream.status = "open"
    /\ errStream' = [errStream EXCEPT !.buf = errStream.buf \o c]
    /\ errLeft' = errLeft - 1
    /\ UNCHANGED <<runVars, wgVars, outStream, outVars, errVars, taskVars, proc, exitOk,
                   outLeft, callVars>>

\* the write end of a pipe is closed: what is buffered is still read, then EOF
AtExit(stream) ==
    IF stream.status = "open" THEN [stream EXCEPT !.status = "eof"] ELSE stream

\* the subprocess exits (by itself or killed), with status 0 iff ok
ProcExit(ok) ==
    /\ ~panicked
    /\ proc = "running"
    /\ proc' = "exited"
    /\ exitOk' = ok
    /\ outLeft' = 0
    /\ errLeft' = 0
    /\ outStream' = AtExit(outStream)
    /\ errStream' = AtExit(errStream)
    /\ UNCHANGED <<runVars, wgVars, outVars, errVars, taskVars, callVars>>

\* reads of the stdout pipe start to fail (an I/O error, a close from outside):
\* what the pipe still held is lost
OutStreamError ==
    /\ ~panicked
    /\ outStream.status = "open"
    /\ outStream' = [status |-> "err", buf |-> <<>>]
    /\ UNCHANGED <<runVars, wgVars, errStream, outVars, errVars, taskVars, procVars,
                   callVars>>

\* reads of the stderr pipe start to fail: what the pipe still held is lost
ErrStreamError ==
    /\ ~panicked
    /\ errStream.status = "open"
    /\ errStream' = [status |-> "err", buf |-> <<>>]
    /\ UNCHANGED <<runVars, wgVars, outStream, outVars, errVars, taskVars, procVars,
                   callVars>>

\* what the subprocess writes to stdout in the concurrent runs
OutChunks == {LineJunk, LineTwoSpeeds, FragmentProgress}

\* what it writes to stderr
ErrChunks == {LineErr}

\* what it writes to stdout in the parsing runs
ParseChunks ==
    {ProgressLine(r, t) : r \in Counts, t \in Counts}
        \cup {LineScenarioA, LineTwoSpeeds, LineNoSlash, LineOverflow, LineTwoFragments,
              LineSpeedOnce, LineSpeedTwice, LineSpeedBacktrack, LineJunk}

(***************************************************************************)
(* The specifications.                                                     *)
(***************************************************************************)
Next ==
    \/ RunStderrPipeOk
    \/ RunStderrPipeFail
    \/ RunStdoutPipeOk
    \/ RunStdoutPipeFail
    \/ RunAcqClose
    \/ RunGoStdout
    \/ RunGoStderr
    \/ RunWgAdd
    \/ RunStartOk
    \/ RunStartFail
    \/ RunCloseStdout
    \/ RunCloseStderr
    \/ RunWgWaitFail
    \/ RunWgWait
    \/ RunWaitCall
    \/ RunWaitReturn
    \/ OutReadLine
    \/ OutReadFail
    \/ OutLock
    \/ OutProgress
    \/ OutPercent
    \/ OutSpeed
    \/ OutAppend
    \/ OutUnlock
    \/ OutDone
    \/ ErrReadLine
    \/ ErrReadFail
    \/ ErrLock
    \/ ErrAppend
    \/ ErrUnlock
    \/ ErrDone
    \/ CallState
    \/ CallStateLock
    \/ CallStateCopy
    \/ CallStateReturn
    \/ CallLog
    \/ CallLogLock
    \/ CallLogStderr
    \/ CallLogStdout
    \/ CallLogReturn
    \/ \E c \in OutChunks : EmitStdout(c)
    \/ \E c \in ErrChunks : EmitStderr(c)
    \/ \E ok \in BOOLEAN : ProcExit(ok)
    \/ OutStreamError
    \/ ErrStreamError

\* every interleaving of Run, the two processors, a caller and the collaborators
Spec == Init /\ [][Next]_vars

\* the steps of the goroutine that runs Run
RunSteps ==
    \/ RunStderrPipeOk
    \/ RunStderrPipeFail
    \/ RunStdoutPipeOk
    \/ RunStdoutPipeFail
    \/ RunAcqClose
    \/ RunGoStdout
    \/ RunGoStderr
    \/ RunWgAdd
    \/ RunStartOk
    \/ RunStartFail
    \/ RunCloseStdout
    \/ RunCloseStderr
    \/ RunWgWaitFail
    \/ RunWgWait
    \/ RunWaitCall
    \/ RunWaitReturn

\* the steps of the processStdout goroutine
OutSteps ==
    \/ OutReadLine
    \/ OutReadFail
    \/ OutLock
    \/ OutProgress
    \/ OutPercent
    \/ OutSpeed
    \/ OutAppend
    \/ OutUnlock
    \/ OutDone

\* the steps of the processStderr goroutine
ErrSteps ==
    \/ ErrReadLine
    \/ ErrReadFail
    \/ ErrLock
    \/ ErrAppend
    \/ ErrUnlock
    \/ ErrDone

\* the steps of a State() or Log() call that was entered
CallSteps ==
    \/ CallStateLock
    \/ CallLogLock
    \/ CallStateCopy
    \/ CallStateReturn
    \/ CallLogStderr
    \/ CallLogStdout
    \/ CallLogReturn

\* the scheduler runs every goroutine that stays able to take a step; nothing
\* is assumed of the subprocess, the pipes or the arrival of callers
Fairness ==
    /\ WF_vars(RunSteps)
    /\ WF_vars(OutSteps)
    /\ WF_vars(ErrSteps)
    /\ WF_vars(CallSteps)

\* what the subprocess writes to stdout in the fair runs: a progress line,
\* which takes processStdout through each of its steps
LiveChunks == {LineNoSlash}

\* Next with the stdout text of LiveChunks
NextLive ==
    \/ RunSteps
    \/ OutSteps
    \/ ErrSteps
    \/ CallState
    \/ CallLog
    \/ CallSteps
    \/ \E c \in LiveChunks : EmitStdout(c)
    \/ \E c \in ErrChunks : EmitStderr(c)
    \/ \E ok \in BOOLEAN : ProcExit(ok)
    \/ OutStreamError
    \/ ErrStreamError

\* every interleaving under fair scheduling of the goroutines
SpecFair == Init /\ [][NextLive]_vars /\ Fairness

InitParse == InitWith(MaxParseLines, 0)

\* a run without failures or callers, over the lines of ParseChunks
NextParse ==
    \/ RunStderrPipeOk
    \/ RunStdoutPipeOk
    \/ RunGoStdout
    \/ RunGoStderr
    \/ RunWgAdd
    \/ RunStartOk
    \/ RunWgWait
    \/ RunWaitCall
    \/ RunWaitReturn
    \/ OutReadLine
    \/ OutReadFail
    \/ OutLock
    \/ OutProgress
    \/ OutPercent
    \/ OutSpeed
    \/ OutAppend
    \/ OutUnlock
    \/ OutDone
    \/ ErrReadFail
    \/ ErrDone
    \/ \E c \in ParseChunks : EmitStdout(c)
    \/ \E ok \in BOOLEAN : ProcExit(ok)

SpecParse == InitParse /\ [][NextParse]_vars

(***************************************************************************)
(* Definitions the properties below share.                                 *)
(***************************************************************************)
\* the stdout processor has processed every line it has read, and at least one
Processed == outRead # <<>> /\ outPc \in {"read", "deferDone", "done"}

LastLine == outRead[Len(outRead)]

StartSucceeded == proc # "notStarted"

StartFailed == startCalls > 0 /\ proc = "notStarted"

BothTerminated == outPc = "done" /\ errPc = "done"

(***************************************************************************)
(* C1.  When both streams are acquired and Start succeeds, Wait is invoked *)
(* only after both processors have terminated, and Run returns the result  *)
(* of Wait: nil iff the subprocess exited with status 0.                   *)
(***************************************************************************)
C1_WaitAfterProcessors ==
    /\ waitCalls > 0 => BothTerminated
    /\ runPc \in {"wait", "waiting"} => BothTerminated
    /\ (runPc = "returned" /\ StartSucceeded) =>
          /\ waitCalls = 1
          /\ runErr \in {"nil", "errExit"}
          /\ (runErr = "nil") <=> exitOk

\* Run has returned a failed Wait after the processors logged both streams
C1_Witness ==
    /\ runPc = "returned"
    /\ runErr = "errExit"
    /\ outRead # <<>>
    /\ errRead # <<>>

(***************************************************************************)
(* C2.  When Start fails, Run closes both streams, returns the spawn error *)
(* only after both processors have terminated and never calls Wait; no     *)
(* processor runs once Run has returned.                                   *)
(***************************************************************************)
C2_StartFailure ==
    /\ StartFailed => waitCalls = 0
    /\ (StartFailed /\ runPc \in {"wgWaitFail", "returned"}) =>
          /\ outStream.status = "closed"
          /\ errStream.status = "closed"
    /\ (StartFailed /\ runPc = "returned") =>
          /\ runErr = "errStart"
          /\ BothTerminated

\* Run has returned the spawn error
C2_Witness ==
    /\ runPc = "returned"
    /\ runErr = "errStart"
    /\ startCalls = 1

(***************************************************************************)
(* C3.  When a stream acquisition fails, Run returns that error without    *)
(* launching a processor and without calling Start or Wait; when it is the *)
(* stdout acquisition, the stderr stream is closed before Run returns; and *)
(* Progress State and Log Buffer are as NewTask left them.                 *)
(***************************************************************************)
AcquisitionFailed == runPc = "acqClose" \/ runErr \in {"errStderrPipe", "errStdoutPipe"}

C3_AcquisitionFailure ==
    /\ AcquisitionFailed =>
          /\ outPc = "idle"
          /\ errPc = "idle"
          /\ startCalls = 0
          /\ waitCalls = 0
          /\ state = ZeroState
          /\ log = ZeroLog
    /\ runErr = "errStdoutPipe" => errStream.status = "closed"
    /\ runErr = "errStderrPipe" => errStream.status = "none" /\ outStream.status = "none"
    /\ (runPc = "returned" /\ startCalls = 0) => AcquisitionFailed

\* Run has returned the stdout acquisition error, and a caller has looked at the task
C3_Witness ==
    /\ runPc = "returned"
    /\ runErr = "errStdoutPipe"
    /\ retLog # <<>>

(***************************************************************************)
(* C4.  Every value State() returns is a whole record: the Progress State  *)
(* as it was before or after the processing of a stdout line, not during   *)
(* it, whose percent is the one computed from its remaining and total.     *)
(* Every value Log() returns is a pair the Log Buffer held at one instant. *)
(***************************************************************************)
C4_WholeSnapshots ==
    /\ callPc = "stateUnlock" =>
          /\ callC \in stateHist
          /\ callC.Progress = Percent(callC.Remain, callC.Total)
    /\ callPc = "logUnlock" => callL \in logHist
    /\ retLog # <<>> => retLog[1] \in logHist

\* State() returns a record with progress while the stdout processor is still at work
C4_Witness ==
    /\ callPc = "stateUnlock"
    /\ callC.Total > 0
    /\ callC.Progress # <<0, 1>>
    /\ outPc \notin {"idle", "done"}
    /\ runPc # "returned"

(***************************************************************************)
(* C5.  Once the stdout processor has processed a line of the progress     *)
(* grammar with REMAIN = r and TOTAL = t, Progress State has remaining r,  *)
(* total t and percent (t - r) / t * 100 when t > 0, (0 - r) / 1 * 100     *)
(* when t = 0.                                                             *)
(***************************************************************************)
\* the lines of the progress grammar among ParseChunks, with their REMAIN and TOTAL
GrammarLines ==
    {[text |-> ProgressLine(r, t), remain |-> r, total |-> t] : r \in Counts, t \in Counts}
        \cup {[text |-> LineScenarioA, remain |-> 50, total |-> 100],
              [text |-> LineTwoSpeeds, remain |-> 9, total |-> 12]}

C5_ProgressOfLine ==
    \A g \in GrammarLines :
        (Processed /\ LastLine = g.text) =>
            /\ state.Remain = g.remain
            /\ state.Total = g.total
            /\ state.Progress =
                  IF g.total > 0
                  THEN Ratio((g.total - g.remain) * 100, g.total)
                  ELSE Ratio((0 - g.remain) * 100, 1)

\* a line with TOTAL = 0 and REMAIN = 4 has been processed after another line
C5_Witness ==
    /\ Processed
    /\ Len(outRead) = 2
    /\ LastLine = ProgressLine(4, 0)
    /\ state.Progress = <<-400, 1>>

(***************************************************************************)
(* C6.  As claimed: whenever the stdout processor is not inside its locked *)
(* section, remaining >= 0, total >= 0 and 0 <= percent <= 100.            *)
(***************************************************************************)
PercentAtLeast0(st) == st.Progress[1] >= 0

PercentAtMost100(st) == st.Progress[1] <= 100 * st.Progress[2]

C6_Original ==
    mutex # "stdout" =>
        /\ state.Remain >= 0
        /\ state.Total >= 0
        /\ PercentAtLeast0(state)
        /\ PercentAtMost100(state)

(***************************************************************************)
(* C6, amended.  Whenever the stdout processor is not inside its locked    *)
(* section, remaining >= 0, total >= 0, percent <= 100, and percent >= 0   *)
(* exactly when remaining <= total.                                        *)
(***************************************************************************)
C6_PercentRange ==
    mutex # "stdout" =>
        /\ state.Remain >= 0
        /\ state.Total >= 0
        /\ PercentAtMost100(state)
        /\ PercentAtLeast0(state) <=> (state.Remain <= state.Total)

\* a negative percent after a line whose REMAIN exceeds its TOTAL
C6_Witness ==
    /\ Processed
    /\ LastLine = ProgressLine(12, 4)
    /\ state.Progress = <<-200, 1>>
    /\ mutex = "free"

(***************************************************************************)
(* C7.  As claimed: once both processors have finished, Log().Stdout is    *)
(* the lines read from stdout, each with its one trailing newline, in read *)
(* order, and Log().Stderr the same for stderr.                            *)
(***************************************************************************)
C7_Original ==
    BothTerminated =>
        /\ log.Stdout = Flatten(outRead)
        /\ log.Stderr = Flatten(errRead)

(***************************************************************************)
(* C8.  As claimed: when stdout delivers the one line of scenario A and    *)
(* ends, the final State() is {50, 100, "120.00kB/s", 50.0}.               *)
(***************************************************************************)
Speed120 == <<"1", "2", "0", ".", "0", "0", "k", "B", "/", "s">>

ScenarioADone == outPc = "done" /\ outRead = <<LineScenarioA>>

C8_Original ==
    ScenarioADone =>
        state = [Remain |-> 50, Total |-> 100, Speed |-> Speed120, Progress |-> <<50, 1>>]

(***************************************************************************)
(* C8, amended.  When stdout delivers the one line of scenario A and ends, *)
(* the final State() is {50, 100, "", 50.0}: the line has one speed        *)
(* fragment only, and the speed is the empty string.                       *)
(***************************************************************************)
C8_ScenarioA ==
    ScenarioADone =>
        state = [Remain |-> 50, Total |-> 100, Speed |-> <<>>, Progress |-> <<50, 1>>]

\* scenario A has run to the end of the stdout processor
C8_Witness == ScenarioADone /\ runPc = "returned"

(***************************************************************************)
(* C9.  Once a line matching the speed-marker has been processed, speed is *)
(* the text of the second speed occurrence of the line, and the empty      *)
(* string when the line has one occurrence only, whatever was stored.      *)
(***************************************************************************)
Speed225 == <<"2", ".", "2", "5", "M", "B", "/", "s">>

Speed999 == <<"9", ".", "9", "9", "M", "B", "/", "s">>

Speed1234 == <<"1", ".", "2", "3", "4", "/", "s">>

\* the speed lines among ParseChunks, with their second occurrence
SpeedLines ==
    {[text |-> LineSpeedTwice, second |-> Speed225],
     [text |-> LineTwoSpeeds, second |-> Speed999],
     [text |-> LineSpeedBacktrack, second |-> Speed1234],
     [text |-> LineSpeedOnce, second |-> <<>>],
     [text |-> LineScenarioA, second |-> <<>>]}

C9_SpeedOfLine ==
    \A g \in SpeedLines :
        (Processed /\ LastLine = g.text) => state.Speed = g.second

\* a line with one occurrence has replaced a stored speed by the empty string
C9_Witness ==
    /\ Processed
    /\ outRead = <<LineSpeedTwice, LineSpeedOnce>>
    /\ state.Speed = <<>>

(***************************************************************************)
(* C10.  When the subprocess has written only lines that match neither     *)
(* pattern and exits with a non-zero status, Run returns the failure,      *)
(* Progress State is still the zero record of NewTask, and the Log Buffer  *)
(* holds every line read, in order.                                        *)
(***************************************************************************)
\* sub occurs in text at position i
OccursAt(sub, text, i) == i + Len(sub) - 1 <= Len(text) /\ SubSeq(text, i, i + Len(sub) - 1) = sub

\* the lines occur in text one after the other, from position from on
RECURSIVE OccurInOrder(_, _, _)
OccurInOrder(lines, text, from) ==
    \/ lines = <<>>
    \/ \E i \in from..Len(text) :
          /\ OccursAt(Head(lines), text, i)
          /\ OccurInOrder(Tail(lines), text, i + Len(Head(lines)))

NoLineMatched == \A k \in 1..Len(outRead) : ~ProgressMatch(outRead[k]) /\ ~SpeedMatch(outRead[k])

C10_ScenarioB ==
    (runPc = "returned" /\ proc = "exited" /\ ~exitOk /\ NoLineMatched) =>
        /\ runErr = "errExit"
        /\ state = ZeroState
        /\ OccurInOrder(outRead, log.Stdout, 1)
        /\ OccurInOrder(errRead, log.Stderr, 1)

\* Run has failed after a junk line on stdout and a line on stderr
C10_Witness ==
    /\ runPc = "returned"
    /\ runErr = "errExit"
    /\ outRead = <<LineJunk>>
    /\ errRead = <<LineErr>>
    /\ state = ZeroState

(***************************************************************************)
(* C11.  No processor holds the task lock at a stream read: the lock is    *)
(* held only while one line that was already read is parsed and appended.  *)
(* Hence, under fair scheduling, every State() and Log() call that was     *)
(* entered eventually returns, whatever the streams and the subprocess do. *)
(***************************************************************************)
\* a processor that holds the mutex is between its Lock and its Unlock
LockHeldForOneLine ==
    /\ mutex = "stdout" <=> outPc \in {"progress", "percent", "speed", "append", "unlock"}
    /\ mutex = "stderr" <=> errPc \in {"append", "unlock"}

InCall == callPc # "idle"

C11_Original == [](LockHeldForOneLine) /\ (InCall ~> ~InCall)

\* the same, for the runs in which the program does not die
C11_Surviving == <>panicked \/ C11_Original

(***************************************************************************)
(* C12.  If both streams come to yield end-of-stream or a read error and   *)
(* the subprocess exits, then under fair scheduling both processors        *)
(* terminate and Run returns the result of Wait; and on the success path   *)
(* Run does not return while a stream is open or holds an unread line.     *)
(***************************************************************************)
\* reads of the stream have come to fail: ended, failing or closed
Ended(stream) == stream.status \in {"eof", "err", "closed"}

\* nothing is left to read from the stream
Drained(stream) == Ended(stream) /\ ~HasLine(stream.buf)

\* the subprocess has exited, and with that both streams have ended
CollaboratorsTerminated ==
    /\ proc = "exited"
    /\ Ended(outStream)
    /\ Ended(errStream)

RunReturnedExitStatus ==
    /\ BothTerminated
    /\ runPc = "returned"
    /\ runErr = WaitResult

C12_RunTerminates ==
    /\ [](proc = "exited" => CollaboratorsTerminated)
    /\ CollaboratorsTerminated ~> RunReturnedExitStatus
    /\ []((runPc = "returned" /\ StartSucceeded) =>
              Drained(outStream) /\ Drained(errStream))

\* Run has returned a clean exit after a stdout read error ended processStdout
\* and end-of-stream ended processStderr, each after a line was logged
C12_Witness ==
    /\ RunReturnedExitStatus
    /\ runErr = "nil"
    /\ outStream.status = "err"
    /\ errStream.status = "eof"
    /\ outRead # <<>>
    /\ errRead # <<>>

(***************************************************************************)
(* C13.  The fields of Progress State keep their last value between        *)
(* updates: while the stdout processor handles a line that does not match  *)
(* the progress-marker, remaining, total and percent do not change; while  *)
(* it handles a line that does not match the speed-marker, speed does not  *)
(* change; a line that matches neither changes nothing but the stdout log. *)
(***************************************************************************)
ProgressFields(st) == <<st.Remain, st.Total, st.Progress>>

C13_FieldsPersist ==
    [][/\ ProgressFields(state') # ProgressFields(state) => ProgressMatch(outLine)
       /\ state'.Speed # state.Speed => SpeedMatch(outLine)
       /\ log' # log =>
              \/ /\ log'.Stderr = log.Stderr
                 /\ log'.Stdout = log.Stdout \o outLine \o <<NL>>
              \/ ProgressMatch(outLine)
              \/ SpeedMatch(outLine)]_vars

\* a line matching neither pattern was processed after one that set all four
\* fields, and they still hold what that first line gave them
C13_Witness ==
    /\ Processed
    /\ outRead = <<LineTwoSpeeds, LineJunk>>
    /\ state = [Remain |-> 9, Total |-> 12, Speed |-> Speed999, Progress |-> <<25, 1>>]

(***************************************************************************)
(* C14.  The two processors write disjoint parts of the shared record: a   *)
(* step of the stderr processor changes neither Progress State nor the     *)
(* stdout log, a step of the stdout processor does not change the stderr   *)
(* log, and Progress State changes in steps of the stdout processor only.  *)
(***************************************************************************)
C14_DisjointWrites ==
    [][/\ errPc' # errPc => (state' = state /\ log'.Stdout = log.Stdout)
       /\ outPc' # outPc => log'.Stderr = log.Stderr
       /\ state' # state => outPc' # outPc
       /\ log'.Stdout # log.Stdout => outPc' # outPc
       /\ log'.Stderr # log.Stderr => errPc' # errPc]_vars

\* both processors have written: stderr its log, stdout the state and its log
C14_Witness ==
    /\ BothTerminated
    /\ log.Stderr = LineErr \o <<NL>>
    /\ log.Stdout = LineTwoSpeeds \o <<NL>>
    /\ state.Total = 12

(***************************************************************************)
(* C15.  The progress check and the speed check of a stdout line are       *)
(* independent and happen within one lock hold together with the append:   *)
(* whenever a caller holds the lock after a line matching both patterns    *)
(* was processed, the state carries that line's remaining, total, percent  *)
(* and speed and the stdout log ends with the line, so a snapshot never    *)
(* has the line's progress without its speed.                              *)
(***************************************************************************)
\* how many of the lines read the stdout processor has processed
ProcessedCount ==
    IF outPc \in {"lock", "progress", "percent", "speed", "append", "unlock"}
    THEN Len(outRead) - 1
    ELSE Len(outRead)

\* the lines of the concurrent runs that match both patterns, with what they
\* carry: one chunk, and the same chunk after text without a newline
LinesMatchingBoth ==
    {[text |-> LineTwoSpeeds, remain |-> 9, total |-> 12, speed |-> Speed999],
     [text |-> FragmentProgress \o LineTwoSpeeds, remain |-> 9, total |-> 12,
      speed |-> Speed999]}

\* st and lg carry every effect of processing the line g
CarriesLine(st, lg, g) ==
    /\ st = [Remain |-> g.remain, Total |-> g.total, Speed |-> g.speed,
             Progress |-> Ratio((g.total - g.remain) * 100, g.total)]
    /\ Len(lg.Stdout) >= Len(g.text) + 1
    /\ SubSeq(lg.Stdout, Len(lg.Stdout) - Len(g.text), Len(lg.Stdout)) = g.text \o <<NL>>

C15_BothOrNeither ==
    /\ mutex = "caller" => outPc \notin {"progress", "percent", "speed", "append", "unlock"}
    /\ callPc = "stateUnlock" => callC = state
    /\ callPc = "logUnlock" => callL = log
    /\ (callPc \in {"stateUnlock", "logUnlock"} /\ ProcessedCount > 0) =>
          \A g \in LinesMatchingBoth :
              outRead[ProcessedCount] = g.text => CarriesLine(state, log, g)

\* State() has copied, during the run, the state left by a line matching both
C15_Witness ==
    /\ callPc = "stateUnlock"
    /\ outPc = "read"
    /\ outRead = <<LineTwoSpeeds>>
    /\ callC = [Remain |-> 9, Total |-> 12, Speed |-> Speed999, Progress |-> <<25, 1>>]

(***************************************************************************)
(* C16.  As claimed: parse degradation neither fails nor stops the stdout  *)
(* processor.  After a line whose matched progress fragment has no '/',    *)
(* remaining, total and percent are 0; after one with a '/', a part that   *)
(* does not parse as an integer gives 0 for its field and the other part   *)
(* its value; the line is logged; and the processor ends only when a read  *)
(* fails.                                                                  *)
(***************************************************************************)
\* the parts of the capture of a progress line
CaptureParts(logStr) == Split(ProgressExtract(logStr), "/")

ParsesAsInt(s) ==
    s # <<>> /\ (\A k \in 1..Len(s) : IsDigit(s[k])) /\ Len(s) <= MaxInt64Digits

ValueOrZero(s) == IF ParsesAsInt(s) THEN DigitsValue(s, 0) ELSE 0

EndsWith(s, t) == Len(s) >= Len(t) /\ SubSeq(s, Len(s) - Len(t) + 1, Len(s)) = t

C16_Original ==
    /\ (Processed /\ ProgressMatch(LastLine)) =>
          /\ Len(CaptureParts(LastLine)) < numbersCount =>
                (state.Remain = 0 /\ state.Total = 0 /\ state.Progress = <<0, 1>>)
          /\ Len(CaptureParts(LastLine)) >= numbersCount =>
                /\ state.Remain = ValueOrZero(CaptureParts(LastLine)[indexRem + 1])
                /\ state.Total = ValueOrZero(CaptureParts(LastLine)[indexTotal + 1])
          /\ EndsWith(log.Stdout, LastLine \o <<NL>>)
    /\ outPc \in {"deferDone", "done"} => ReadFails(outStream)

(***************************************************************************)
(* C17.  Both fields of the Log Buffer are append-only during a run: what  *)
(* a Log() call has returned stays a prefix, field by field, of the log    *)
(* and of what every later Log() call copies.                              *)
(***************************************************************************)
IsPrefix(p, s) == Len(p) <= Len(s) /\ SubSeq(s, 1, Len(p)) = p

LogIsPrefix(l1, l2) == IsPrefix(l1.Stdout, l2.Stdout) /\ IsPrefix(l1.Stderr, l2.Stderr)

ReadErrorStep ==
    \/ outPc = "read" /\ outPc' = "deferDone"
    \/ errPc = "read" /\ errPc' = "deferDone"

\* the step in which a processor returns
ProcessorEndStep ==
    \/ outPc = "deferDone" /\ outPc' = "done"
    \/ errPc = "deferDone" /\ errPc' = "done"

RunResults == {"errStderrPipe", "errStdoutPipe", "errStart", "nil", "errExit"}

C18_Original ==
    [][/\ ReadErrorStep => UNCHANGED <<state, log, mutex>>
       /\ ProcessorEndStep => ~panicked'
       /\ runPc' = "returned" =>
              /\ runErr' \in RunResults
              /\ StartSucceeded => runErr' = WaitResult]_vars

(***************************************************************************)
(* C19.  As claimed: the join barrier of Run is sound under every          *)
(* interleaving.  The WaitGroup counter is never below zero, and Run is    *)
(* past a wg.Wait() only when both processors have terminated, also when a *)
(* processor's first read fails before Run's wg.Add(2).                    *)
(***************************************************************************)
PastBarrier ==
    \/ runPc \in {"wait", "waiting"}
    \/ runPc = "returned" /\ startCalls > 0

C19_Original ==
    /\ wg >= 0
    /\ PastBarrier => BothTerminated

(***************************************************************************)
(* C20.  Text at the end of a stream that no newline terminates is         *)
(* discarded: a read that returns data together with an error ends the     *)
(* processor, and that data is neither parsed nor logged.  What a          *)
(* processor parses and logs is a newline-terminated line, the logs hold   *)
(* the lines read and nothing else, and Progress State is the zero state   *)
(* as long as no line was read.                                            *)
(***************************************************************************)
\* text that ends with its only newline
IsLine(l) == l # <<>> /\ \A k \in 1..Len(l) : (l[k] = NL) <=> (k = Len(l))

\* what the code appends to a log for the lines
Logged(lines) == Flatten([k \in 1..Len(lines) |-> lines[k] \o <<NL>>])

C20_FragmentDiscarded ==
    /\ \A k \in 1..Len(outRead) : IsLine(outRead[k])
    /\ \A k \in 1..Len(errRead) : IsLine(errRead[k])
    /\ outPc \in {"lock", "progress", "percent", "speed", "append", "unlock"} =>
          IsLine(outLine)
    /\ errPc \in {"lock", "append", "unlock"} => IsLine(errLine)
    /\ outPc \in {"read", "deferDone", "done"} => log.Stdout = Logged(outRead)
    /\ errPc \in {"read", "deferDone", "done"} => log.Stderr = Logged(errRead)
    /\ outRead = <<>> => state = ZeroState

\* processStdout has returned on a read that gave an unterminated progress
\* line together with end-of-stream: the state and the stdout log are untouched
C20_Witness ==
    /\ outPc = "done"
    /\ outStream.status = "eof"
    /\ outLine = FragmentProgress
    /\ outRead = <<>>
    /\ state = ZeroState
    /\ log.Stdout = <<>>

=============================================================================
